---- MODULE Spec2Model ----
(***************************************************************************)
(* Model of src/main.ts: the two image-resize plugins of the repository.   *)
(*                                                                         *)
(*  - MouseWheelZoomPlugin (lines 29-231): a modifier key is held, wheel   *)
(*    events over an image rewrite the image's size annotation in the      *)
(*    markdown file that shows it.  handleZoom is an async function: the   *)
(*    wheel handler does not await it, so a zoom is modelled as a process  *)
(*    with the positions  idle -> resolved -> modify -> idle, and          *)
(*    rejected when the invocation ended with a thrown error.              *)
(*  - ImageResizePlugin (lines 316-372): Ctrl+Shift+K / Ctrl+Shift+J       *)
(*    rewrite the `|N]` annotation of the line under the cursor.           *)
(*                                                                         *)
(* Text is modelled as sequences of one-character strings wherever the     *)
(* code of main.ts inspects characters (URIs, class lists, editor lines).  *)
(* The text of a file handled by the wheel plugin is a sequence of image   *)
(* references (tokens), because the patterns that read and rewrite it are  *)
(* built by ./src/util, which is not part of the sources at hand.          *)
(***************************************************************************)
EXTENDS Integers, Sequences, FiniteSets, TLC

VARIABLES
    settings,        \* MouseWheelZoomPlugin.settings
    isKeyHeldDown,   \* MouseWheelZoomPlugin.isKeyHeldDown
    scrollDisabled,  \* the preventDefault wheel listener is installed on window
    files,           \* vault: file name -> text (sequence of tokens)
    ops,             \* the handleZoom invocations in flight, by slot
    ticks,           \* number of handleZoom invocations so far
    lines,           \* ImageResizePlugin: leaf -> the editor's lines
    cursor,          \* ImageResizePlugin: leaf -> cursor line
    activeLeaf,      \* ImageResizePlugin: app.workspace.activeLeaf
    presses,         \* the shortcut presses handled so far (scenario history)
    zoomInput,       \* resolver check: the arguments given to getZoomParams
    zoomOutput       \* resolver check: what getZoomParams produced for them

wheelVars == <<settings, isKeyHeldDown, scrollDisabled, files, ops,
               ticks>>
keyVars == <<lines, cursor, activeLeaf>>
vars == <<settings, isKeyHeldDown, scrollDisabled, files, ops,
          ticks, lines, cursor, activeLeaf, presses, zoomInput, zoomOutput>>

(***************************************************************************)
(* Bounds of the model.                                                    *)
(***************************************************************************)
\* wheel events that reach handleZoom in one behaviour
MaxTicks == 2
\* handleZoom invocations that may be in flight at the same time
MaxInFlight == 2
\* shortcut presses recorded in one scenario
MaxPresses == 8
\* largest width the keyboard plugin is asked to grow from
MaxWidth == 300

(***************************************************************************)
(* Text helpers: strings as sequences of one-character strings.            *)
(***************************************************************************)
Min(a, b) == IF a < b THEN a ELSE b

\* s.substring(from, to) with 0-based indices, to exclusive
Substring(s, from, to) ==
    LET f == IF from < 0 THEN 0 ELSE Min(from, Len(s))
        t == IF to < 0 THEN 0 ELSE Min(to, Len(s))
        lo == Min(f, t)
        hi == IF f < t THEN t ELSE f
    IN  SubSeq(s, lo + 1, hi)

\* sub occurs in s at 0-based position i
OccursAt(s, sub, i) ==
    /\ i >= 0
    /\ i + Len(sub) <= Len(s)
    /\ \A k \in 1..Len(sub) : s[i + k] = sub[k]

\* s.indexOf(sub): 0-based position of the first occurrence, -1 when none
IndexOf(s, sub) ==
    LET hits == {i \in 0..Len(s) : OccursAt(s, sub, i)}
    IN  IF hits = {} THEN -1 ELSE CHOOSE i \in hits : \A j \in hits : i <= j

\* s.lastIndexOf(sub)
LastIndexOf(s, sub) ==
    LET hits == {i \in 0..Len(s) : OccursAt(s, sub, i)}
    IN  IF hits = {} THEN -1 ELSE CHOOSE i \in hits : \A j \in hits : i >= j

\* s.contains(sub)
Contains(s, sub) == IndexOf(s, sub) >= 0

(***************************************************************************)
(* The page: the elements a wheel event can hit, and the open panes.       *)
(***************************************************************************)
HTTP == <<"h", "t", "t", "p">>
APP == <<"a", "p", "p", ":", "/", "/">>
EXCALIDRAW == <<"e", "x", "c", "a", "l", "i", "d", "r", "a", "w", "-", "s", "v", "g">>
SLASH == <<"/">>
QUERY == <<"?">>

PicName == <<"p", "i", "c", ".", "p", "n", "g">>
DrawName == <<"d", "r", "a", "w">>
RemoteUri == <<"h", "t", "t", "p", ":", "/", "/", "x", "/", "r", ".", "p", "n", "g">>
LocalUri == <<"a", "p", "p", ":", "/", "/", "l", "/", "p", "i", "c", ".", "p", "n", "g", "?", "1">>
\* an internal link whose file name contains "http"
MixedUri == <<"a", "p", "p", ":", "/", "/", "l", "/", "h", "t", "t", "p", ".", "p", "n", "g", "?", "1">>
MixedName == <<"h", "t", "t", "p", ".", "p", "n", "g">>
BlobUri == <<"b", "l", "o", "b", ":", "1">>
DataUri == <<"d", "a", "t", "a", ":", "x">>
DrawSource == <<"d", "/", "d", "r", "a", "w", ".", "m", "d">>

NoteFile == "note.md"
OtherFile == "other.md"
NoFile == "none"

\* attributes of the elements: nodeName, src, classList.value, filesource,
\* and the intrinsic width of the image behind src
ElementInfo ==
    [eRemote |-> [nodeName |-> "IMG", src |-> RemoteUri, classValue |-> <<>>,
                  filesource |-> <<>>, naturalWidth |-> 640],
     eLocal  |-> [nodeName |-> "IMG", src |-> LocalUri, classValue |-> <<>>,
                  filesource |-> <<>>, naturalWidth |-> 300],
     eWide   |-> [nodeName |-> "IMG", src |-> LocalUri, classValue |-> <<>>,
                  filesource |-> <<>>, naturalWidth |-> 800],
     eData   |-> [nodeName |-> "IMG", src |-> DataUri, classValue |-> <<>>,
                  filesource |-> <<>>, naturalWidth |-> 300],
     eOrphan |-> [nodeName |-> "IMG", src |-> LocalUri, classValue |-> <<>>,
                  filesource |-> <<>>, naturalWidth |-> 300],
     eDiv    |-> [nodeName |-> "DIV", src |-> <<>>, classValue |-> <<>>,
                  filesource |-> <<>>, naturalWidth |-> 0]]

Elements == DOMAIN ElementInfo

\* the open panes, in the order iterateAllLeaves visits them; the container
\* of the last one holds an element that an earlier pane holds as well
Leaves ==
    << [isMarkdown |-> FALSE, contains |-> {"eOrphan"}, file |-> NoFile],
       [isMarkdown |-> TRUE, contains |-> {"eRemote", "eLocal", "eData", "eDiv"},
        file |-> NoteFile],
       [isMarkdown |-> TRUE, contains |-> {"eWide"}, file |-> OtherFile],
       [isMarkdown |-> TRUE, contains |-> {"eWide"}, file |-> NoteFile] >>

Files == {NoteFile, OtherFile}

(***************************************************************************)
(* ./src/util (Util, HandleZoomParams): the patterns over the file text.   *)
(* A file's text is a sequence of image references:                        *)
(*   [kind |-> "link",  ref |-> uri,  size |-> n]   a remote image         *)
(*   [kind |-> "embed", ref |-> name, size |-> n]   ![[name|n]]            *)
(* with size = NoSize when the reference carries no size annotation.       *)
(* Size annotations are canonical decimal numerals, as the plugin writes   *)
(* them, so a size is kept as the number it denotes.                       *)
(***************************************************************************)
NoSize == -1

\* decodeURI, for the escape %20
RECURSIVE DecodeURI(_)
DecodeURI(s) ==
    IF s = <<>> THEN <<>>
    ELSE IF OccursAt(s, <<"%", "2", "0">>, 0)
         THEN <<" ">> \o DecodeURI(SubSeq(s, 4, Len(s)))
         ELSE <<s[1]>> \o DecodeURI(Tail(s))

\* Util.getLocalImageNameFromUri: the file name without scheme, host and query
GetLocalImageNameFromUri(imageUri) ==
    LET q == IndexOf(imageUri, QUERY)
        path == IF q >= 0 THEN Substring(imageUri, 0, q) ELSE imageUri
    IN  DecodeURI(Substring(path, LastIndexOf(path, SLASH) + 1, Len(path)))

\* Util.getRemoteImageZoomParams
GetRemoteImageZoomParams(imageUri) == [syntax |-> "remote", ref |-> imageUri]

\* Util.getLocalImageZoomParams
GetLocalImageZoomParams(imageName) == [syntax |-> "local", ref |-> imageName]

\* the reference a ZoomParams value is about, with the given size
TokenOf(zoomParams, size) ==
    [kind |-> IF zoomParams.syntax = "remote" THEN "link" ELSE "embed",
     ref |-> zoomParams.ref, size |-> size]

\* position of the first occurrence of token tok in text, 0 when none
FirstIndex(text, tok) ==
    LET hits == {k \in 1..Len(text) : text[k] = tok}
    IN  IF hits = {} THEN 0 ELSE CHOOSE k \in hits : \A j \in hits : k <= j

\* String.replace(from, to) with plain strings: the first occurrence only
ReplaceFirst(text, from, to) ==
    LET k == FirstIndex(text, from)
    IN  IF k = 0 THEN text ELSE [text EXCEPT ![k] = to]

\* fileText.match(zoomParams.sizeMatchRegExp): the size of the first reference
\* of this image that carries one, NoSize for a null match
SizeMatch(text, zoomParams) ==
    LET want == TokenOf(zoomParams, NoSize)
        hits == {k \in 1..Len(text) :
                    /\ text[k].kind = want.kind
                    /\ text[k].ref = want.ref
                    /\ text[k].size # NoSize}
    IN  IF hits = {} THEN NoSize
        ELSE text[CHOOSE k \in hits : \A j \in hits : k <= j].size

\* replaceSizeExist: getReplaceFromString(oldSize) -> getReplaceWithString(newSize)
ReplaceSizeExist(text, zoomParams, oldSize, newSize) ==
    ReplaceFirst(text, TokenOf(zoomParams, oldSize), TokenOf(zoomParams, newSize))

\* replaceSizeNotExist: getReplaceFromString(0) -> getReplaceWithString(minWidth)
ReplaceSizeNotExist(text, zoomParams, minWidth) ==
    ReplaceFirst(text, TokenOf(zoomParams, NoSize), TokenOf(zoomParams, minWidth))

(***************************************************************************)
(* MouseWheelZoomPlugin: settings and pure parts of the handlers.          *)
(***************************************************************************)
ModifierKeys == {"AltLeft", "ControlLeft", "ShiftLeft"}
KeyCodes == ModifierKeys \cup {"KeyA"}
StepSizes == {0, 25}
\* the slider positions of "Initial Size" the model offers
InitialSizes == {500}
DeltaYs == {-1, 0, 1}

DEFAULT_SETTINGS ==
    [modifierKey |-> "AltLeft", stepSize |-> 25, initialSize |-> 500]

NotZoomable == "Image is not zoomable"
NoFileFound == "No file belonging to the image found"

\* the value getZoomParams produces when it throws
Unresolvable == [syntax |-> "error", ref |-> <<>>]

\* IsConfiguredKeyDown looking at every modifier of the payload
IsAnyModifierDown(modifierKey, evt) == evt.altKey \/ evt.ctrlKey \/ evt.shiftKey

\* isConfiguredKeyDown(evt)
IsConfiguredKeyDown(modifierKey, evt) ==
    CASE modifierKey = "AltLeft" -> evt.altKey
      [] modifierKey = "ControlLeft" -> evt.ctrlKey
      [] modifierKey = "ShiftLeft" -> evt.shiftKey

\* GetActivePaneWithImage settled by the last resolve() instead of the first
GetLastPaneWithImage(imageElement) ==
    LET hits == {k \in 1..Len(Leaves) :
                    /\ imageElement \in Leaves[k].contains
                    /\ Leaves[k].isMarkdown}
    IN  IF hits = {} THEN NoFile
        ELSE Leaves[CHOOSE k \in hits : \A j \in hits : k >= j].file

\* getActivePaneWithImage: the promise is settled by the first resolve(); the
\* trailing reject() settles it only when no leaf matched (NoFile)
GetActivePaneWithImage(imageElement) ==
    LET hits == {k \in 1..Len(Leaves) :
                    /\ imageElement \in Leaves[k].contains
                    /\ Leaves[k].isMarkdown}
    IN  IF hits = {} THEN NoFile
        ELSE Leaves[CHOOSE k \in hits : \A j \in hits : k <= j].file

\* the name the drawing-embed branch derives from the filesource attribute
DrawingName(src) ==
    LET imageName == Substring(src, 0, Len(src) - 3)
    IN  Substring(imageName, LastIndexOf(imageName, SLASH) + 1, Len(imageName))

\* GetZoomParams with the check for "app://" made before the one for "http"
GetZoomParamsLocalFirst(imageUri, classValue, filesource) ==
    IF Contains(imageUri, APP)
    THEN GetLocalImageZoomParams(GetLocalImageNameFromUri(imageUri))
    ELSE IF Contains(imageUri, HTTP)
    THEN GetRemoteImageZoomParams(imageUri)
    ELSE IF Contains(classValue, EXCALIDRAW)
    THEN GetLocalImageZoomParams(DrawingName(filesource))
    ELSE Unresolvable

\* GetZoomParams falling back to the remote syntax where it should throw
GetZoomParamsFallback(imageUri, classValue, filesource) ==
    IF Contains(imageUri, HTTP)
    THEN GetRemoteImageZoomParams(imageUri)
    ELSE IF Contains(imageUri, APP)
    THEN GetLocalImageZoomParams(GetLocalImageNameFromUri(imageUri))
    ELSE IF Contains(classValue, EXCALIDRAW)
    THEN GetLocalImageZoomParams(DrawingName(filesource))
    ELSE GetRemoteImageZoomParams(imageUri)

\* getZoomParams(imageUri, fileText, target); of target it reads
\* classList.value and the filesource attribute
GetZoomParams(imageUri, classValue, filesource) ==
    IF Contains(imageUri, HTTP)
    THEN GetRemoteImageZoomParams(imageUri)
    ELSE IF Contains(imageUri, APP)
    THEN GetLocalImageZoomParams(GetLocalImageNameFromUri(imageUri))
    ELSE IF Contains(classValue, EXCALIDRAW)
    THEN GetLocalImageZoomParams(DrawingName(filesource))
    ELSE Unresolvable

\* ZoomedSize with the wheel directions exchanged
ZoomedSizeSwapped(oldSize, deltaY, stepSize) ==
    IF deltaY > 0 THEN oldSize + stepSize
    ELSE IF deltaY < 0 /\ oldSize > stepSize THEN oldSize - stepSize
    ELSE oldSize

\* ZoomedSize with the guard of the subtraction not strict
ZoomedSizeNotStrict(oldSize, deltaY, stepSize) ==
    IF deltaY < 0 THEN oldSize + stepSize
    ELSE IF deltaY > 0 /\ oldSize >= stepSize THEN oldSize - stepSize
    ELSE oldSize

\* ZoomedSize subtracting the step whatever the old size
ZoomedSizeUnguarded(oldSize, deltaY, stepSize) ==
    IF deltaY < 0 THEN oldSize + stepSize
    ELSE IF deltaY > 0 THEN oldSize - stepSize
    ELSE oldSize

\* handleZoom, size entry present: the new size
ZoomedSize(oldSize, deltaY, stepSize) ==
    IF deltaY < 0 THEN oldSize + stepSize
    ELSE IF deltaY > 0 /\ oldSize > stepSize THEN oldSize - stepSize
    ELSE oldSize

\* handleZoom, no size entry: Math.min(width, initialSize)
InitialWidth(width, initialSize) == Min(width, initialSize)

\* image.naturalWidth right after image.src is set: the intrinsic width when
\* the image is available at once, 0 while it is still being fetched
NaturalWidths(target) == {0, ElementInfo[target].naturalWidth}

\* ZoomText taking a size entry of 0 for no size entry
ZoomTextZeroIsNone(fileText, zoomParams, deltaY, width, stg) ==
    LET oldSize == SizeMatch(fileText, zoomParams)
    IN  IF oldSize > 0
        THEN ReplaceSizeExist(fileText, zoomParams, oldSize,
                              ZoomedSize(oldSize, deltaY, stg.stepSize))
        ELSE ReplaceSizeNotExist(fileText, zoomParams,
                                 InitialWidth(width, stg.initialSize))

\* handleZoom lines 107-134: the text after the replacement
ZoomText(fileText, zoomParams, deltaY, width, stg) ==
    LET oldSize == SizeMatch(fileText, zoomParams)
    IN  IF oldSize # NoSize
        THEN ReplaceSizeExist(fileText, zoomParams, oldSize,
                              ZoomedSize(oldSize, deltaY, stg.stepSize))
        ELSE ReplaceSizeNotExist(fileText, zoomParams,
                                 InitialWidth(width, stg.initialSize))

(***************************************************************************)
(* MouseWheelZoomPlugin: state and handlers.                               *)
(***************************************************************************)
Slots == 1..MaxInFlight

\* sizes the remote image of note.md is annotated with at the start
StartSizes == {20, 25, 30, 100}

IdleOp ==
    [pc |-> "idle", target |-> "none", deltaY |-> 0, file |-> NoFile,
     newText |-> <<>>, error |-> "none"]

\* an invocation that ended with a thrown error
RejectedOp(message) ==
    [pc |-> "rejected", target |-> "none", deltaY |-> 0, file |-> NoFile,
     newText |-> <<>>, error |-> message]

\* an invocation that has called vault.modify(activeFile, fileText)
ModifyOp(activeFile, fileText) ==
    [pc |-> "modify", target |-> "none", deltaY |-> 0, file |-> activeFile,
     newText |-> fileText, error |-> "none"]

WheelEvents ==
    [target : Elements, deltaY : DeltaYs,
     altKey : BOOLEAN, ctrlKey : BOOLEAN, shiftKey : BOOLEAN]

\* the text of note.md with the remote image annotated with size v
NoteText(v) ==
    << [kind |-> "link", ref |-> RemoteUri, size |-> v],
       [kind |-> "embed", ref |-> PicName, size |-> NoSize] >>

OtherText == << [kind |-> "embed", ref |-> PicName, size |-> NoSize] >>

WheelStart(v) ==
    /\ settings = DEFAULT_SETTINGS
    /\ isKeyHeldDown = FALSE
    /\ scrollDisabled = FALSE
    /\ files = [f \in Files |-> IF f = NoteFile THEN NoteText(v) ELSE OtherText]
    /\ ops = [i \in Slots |-> IdleOp]
    /\ ticks = 0

WheelInit == \E v \in StartSizes : WheelStart(v)

\* disableScroll(): addEventListener ignores a listener that is already there
DisableScroll == scrollDisabled' = TRUE

\* enableScroll()
EnableScroll == scrollDisabled' = FALSE

\* OnConfigKeyUp without the call of enableScroll
OnConfigKeyUpKeepsBlocker ==
    /\ isKeyHeldDown' = FALSE
    /\ UNCHANGED scrollDisabled

\* onConfigKeyUp()
OnConfigKeyUp ==
    /\ isKeyHeldDown' = FALSE
    /\ EnableScroll

\* the keydown handler, lines 36-41
KeyDown(code) ==
    /\ IF code = settings.modifierKey
       THEN /\ isKeyHeldDown' = TRUE
            /\ DisableScroll
       ELSE UNCHANGED <<isKeyHeldDown, scrollDisabled>>
    /\ UNCHANGED <<settings, files, ops, ticks>>
    /\ UNCHANGED <<lines, cursor, activeLeaf, presses, zoomInput, zoomOutput>>

\* KeyUp without the comparison of the key code
KeyUpAnyKey(code) ==
    /\ OnConfigKeyUp
    /\ UNCHANGED <<settings, files, ops, ticks>>
    /\ UNCHANGED <<lines, cursor, activeLeaf, presses, zoomInput, zoomOutput>>

\* the keyup handler, lines 43-47
KeyUp(code) ==
    /\ IF code = settings.modifierKey
       THEN OnConfigKeyUp
       ELSE UNCHANGED <<isKeyHeldDown, scrollDisabled>>
    /\ UNCHANGED <<settings, files, ops, ticks>>
    /\ UNCHANGED <<lines, cursor, activeLeaf, presses, zoomInput, zoomOutput>>

\* handleZoom up to its first await that yields: the src attribute is read and
\* getActivePaneWithImage settles; a rejection ends the invocation
StartZoom(evt) ==
    LET activeFile == GetActivePaneWithImage(evt.target)
        free == {i \in Slots : ops[i].pc = "idle"}
        slot == CHOOSE i \in free : \A j \in free : i <= j
    IN  /\ ticks < MaxTicks
        /\ free # {}
        /\ ticks' = ticks + 1
        /\ IF activeFile = NoFile
           THEN ops' = [ops EXCEPT ![slot] = RejectedOp(NoFileFound)]
           ELSE ops' = [ops EXCEPT ![slot] =
                           [pc |-> "resolved", target |-> evt.target,
                            deltaY |-> evt.deltaY, file |-> activeFile,
                            newText |-> <<>>, error |-> "none"]]

\* Wheel without the check of the target's node name
WheelAnyTarget(evt) ==
    /\ IF ~isKeyHeldDown
       THEN UNCHANGED <<isKeyHeldDown, scrollDisabled, ops, ticks>>
       ELSE IF ~IsConfiguredKeyDown(settings.modifierKey, evt)
       THEN /\ OnConfigKeyUp
            /\ UNCHANGED <<ops, ticks>>
       ELSE /\ StartZoom(evt)
            /\ UNCHANGED <<isKeyHeldDown, scrollDisabled>>
    /\ UNCHANGED <<settings, files>>
    /\ UNCHANGED <<lines, cursor, activeLeaf, presses, zoomInput, zoomOutput>>

\* the wheel handler, lines 49-65
Wheel(evt) ==
    /\ IF ~isKeyHeldDown
       THEN UNCHANGED <<isKeyHeldDown, scrollDisabled, ops, ticks>>
       ELSE IF ~IsConfiguredKeyDown(settings.modifierKey, evt)
       THEN /\ OnConfigKeyUp
            /\ UNCHANGED <<ops, ticks>>
       ELSE IF ElementInfo[evt.target].nodeName = "IMG"
       THEN /\ StartZoom(evt)
            /\ UNCHANGED <<isKeyHeldDown, scrollDisabled>>
       ELSE UNCHANGED <<isKeyHeldDown, scrollDisabled, ops, ticks>>
    /\ UNCHANGED <<settings, files>>
    /\ UNCHANGED <<lines, cursor, activeLeaf, presses, zoomInput, zoomOutput>>

\* Rewrite calling vault.modify whether or not the text has changed
RewriteAlwaysWrites(i) ==
    /\ ops[i].pc = "resolved"
    /\ LET target == ops[i].target
           originalFileText == files[ops[i].file]
           zoomParams == GetZoomParams(ElementInfo[target].src,
                                       ElementInfo[target].classValue,
                                       ElementInfo[target].filesource)
       IN  IF zoomParams = Unresolvable
           THEN ops' = [ops EXCEPT ![i] = RejectedOp(NotZoomable)]
           ELSE \E width \in NaturalWidths(target) :
                   LET fileText == ZoomText(originalFileText, zoomParams,
                                            ops[i].deltaY, width, settings)
                   IN  ops' = [ops EXCEPT ![i] = ModifyOp(ops[i].file, fileText)]
    /\ UNCHANGED <<settings, isKeyHeldDown, scrollDisabled, files, ticks>>
    /\ UNCHANGED <<lines, cursor, activeLeaf, presses, zoomInput, zoomOutput>>

\* handleZoom lines 96-139: vault.read delivers the text of the file, and the
\* code from there to the call of vault.modify runs in the same turn:
\* getZoomParams (which may throw), the replacement, the comparison
Rewrite(i) ==
    /\ ops[i].pc = "resolved"
    /\ LET target == ops[i].target
           originalFileText == files[ops[i].file]
           zoomParams == GetZoomParams(ElementInfo[target].src,
                                       ElementInfo[target].classValue,
                                       ElementInfo[target].filesource)
       IN  IF zoomParams = Unresolvable
           THEN ops' = [ops EXCEPT ![i] = RejectedOp(NotZoomable)]
           ELSE \E width \in NaturalWidths(target) :
                   LET fileText == ZoomText(originalFileText, zoomParams,
                                            ops[i].deltaY, width, settings)
                   IN  IF fileText # originalFileText
                       THEN ops' = [ops EXCEPT ![i] = ModifyOp(ops[i].file, fileText)]
                       ELSE ops' = [ops EXCEPT ![i] = IdleOp]
    /\ UNCHANGED <<settings, isKeyHeldDown, scrollDisabled, files, ticks>>
    /\ UNCHANGED <<lines, cursor, activeLeaf, presses, zoomInput, zoomOutput>>

\* handleZoom line 138: vault.modify stores the text, the invocation ends
Modify(i) ==
    /\ ops[i].pc = "modify"
    /\ files' = [files EXCEPT ![ops[i].file] = ops[i].newText]
    /\ ops' = [ops EXCEPT ![i] = IdleOp]
    /\ UNCHANGED <<settings, isKeyHeldDown, scrollDisabled, ticks>>
    /\ UNCHANGED <<lines, cursor, activeLeaf, presses, zoomInput, zoomOutput>>

\* the promise of a handleZoom call that threw is rejected and nobody handles
\* it: the host reports the error
ReportRejection(i) ==
    /\ ops[i].pc = "rejected"
    /\ ops' = [ops EXCEPT ![i] = IdleOp]
    /\ UNCHANGED <<settings, isKeyHeldDown, scrollDisabled, files, ticks>>
    /\ UNCHANGED <<lines, cursor, activeLeaf, presses, zoomInput, zoomOutput>>

\* the settings tab, lines 257-260, 274-277, 289-292
ChangeModifierKey(value) ==
    /\ settings' = [settings EXCEPT !.modifierKey = value]
    /\ UNCHANGED <<isKeyHeldDown, scrollDisabled, files, ops, ticks>>
    /\ UNCHANGED <<lines, cursor, activeLeaf, presses, zoomInput, zoomOutput>>

ChangeStepSize(value) ==
    /\ settings' = [settings EXCEPT !.stepSize = value]
    /\ UNCHANGED <<isKeyHeldDown, scrollDisabled, files, ops, ticks>>
    /\ UNCHANGED <<lines, cursor, activeLeaf, presses, zoomInput, zoomOutput>>

ChangeInitialSize(value) ==
    /\ settings' = [settings EXCEPT !.initialSize = value]
    /\ UNCHANGED <<isKeyHeldDown, scrollDisabled, files, ops, ticks>>
    /\ UNCHANGED <<lines, cursor, activeLeaf, presses, zoomInput, zoomOutput>>

(***************************************************************************)
(* ImageResizePlugin: the keyboard shortcuts, lines 316-372.               *)
(* A line of the editor is a sequence of one-character strings.            *)
(***************************************************************************)
DigitChars == <<"0", "1", "2", "3", "4", "5", "6", "7", "8", "9">>

IsDigit(c) == \E d \in 1..10 : DigitChars[d] = c

DigitValue(c) == (CHOOSE d \in 1..10 : DigitChars[d] = c) - 1

\* parseInt(digits, 10) for a string of decimal digits
RECURSIVE ParseInt(_)
ParseInt(digits) ==
    IF digits = <<>> THEN 0
    ELSE 10 * ParseInt(SubSeq(digits, 1, Len(digits) - 1))
         + DigitValue(digits[Len(digits)])

\* `${n}`: the decimal numeral of an integer
RECURSIVE NumberToString(_)
NumberToString(n) ==
    IF n < 0 THEN <<"-">> \o NumberToString(-n)
    ELSE IF n < 10 THEN <<DigitChars[n + 1]>>
    ELSE NumberToString(n \div 10) \o <<DigitChars[(n % 10) + 1]>>

\* number of digits of line from position i on (1-based)
RECURSIVE DigitRun(_, _)
DigitRun(line, i) ==
    IF i <= Len(line) /\ IsDigit(line[i]) THEN 1 + DigitRun(line, i + 1) ELSE 0

\* /\|(\d+)\]/ matches at position i: a pipe, the longest run of digits
\* (one at least), a closing bracket
MatchesAt(line, i) ==
    /\ line[i] = "|"
    /\ DigitRun(line, i + 1) >= 1
    /\ i + DigitRun(line, i + 1) + 1 <= Len(line)
    /\ line[i + DigitRun(line, i + 1) + 1] = "]"

\* line.match(/\|(\d+)\]/): position of the leftmost match, 0 for null
RegexMatch(line) ==
    LET hits == {i \in 1..Len(line) : MatchesAt(line, i)}
    IN  IF hits = {} THEN 0 ELSE CHOOSE i \in hits : \A j \in hits : i <= j

\* match[1]: the digits captured by the match at position i
Captured(line, i) == SubSeq(line, i + 1, i + DigitRun(line, i + 1))

\* the floor below which resize abandons the edit, line 334
MinWidth == 50

\* the annotation inserted into a line that has none, line 340
DefaultAnnotation == <<"|", "1", "0", "0", "]">>

\* ResizeLine with the floor at zero
ResizeLineFloorZero(scale, line) ==
    LET m == RegexMatch(line)
    IN  IF m # 0
        THEN LET matchText == ParseInt(Captured(line, m))
                 newWidth == matchText + scale
             IN  IF newWidth < 0
                 THEN line
                 ELSE SubSeq(line, 1, m - 1)
                      \o <<"|">> \o NumberToString(newWidth) \o <<"]">>
                      \o SubSeq(line, m + DigitRun(line, m + 1) + 2, Len(line))
        ELSE LET b == IndexOf(line, <<"]">>)
             IN  IF b < 0 THEN line
                 ELSE SubSeq(line, 1, b) \o DefaultAnnotation
                      \o SubSeq(line, b + 2, Len(line))

\* ResizeLine clamping to the floor where it should abandon the edit
ResizeLineClamped(scale, line) ==
    LET m == RegexMatch(line)
    IN  IF m # 0
        THEN LET matchText == ParseInt(Captured(line, m))
                 newWidth == IF matchText + scale < MinWidth
                             THEN MinWidth ELSE matchText + scale
             IN  SubSeq(line, 1, m - 1)
                 \o <<"|">> \o NumberToString(newWidth) \o <<"]">>
                 \o SubSeq(line, m + DigitRun(line, m + 1) + 2, Len(line))
        ELSE LET b == IndexOf(line, <<"]">>)
             IN  IF b < 0 THEN line
                 ELSE SubSeq(line, 1, b) \o DefaultAnnotation
                      \o SubSeq(line, b + 2, Len(line))

\* ResizeLine annotating the last closing bracket of a line without size
ResizeLineLastBracket(scale, line) ==
    LET m == RegexMatch(line)
    IN  IF m # 0
        THEN LET matchText == ParseInt(Captured(line, m))
                 newWidth == matchText + scale
             IN  IF newWidth < MinWidth
                 THEN line
                 ELSE SubSeq(line, 1, m - 1)
                      \o <<"|">> \o NumberToString(newWidth) \o <<"]">>
                      \o SubSeq(line, m + DigitRun(line, m + 1) + 2, Len(line))
        ELSE LET b == LastIndexOf(line, <<"]">>)
             IN  IF b < 0 THEN line
                 ELSE SubSeq(line, 1, b) \o DefaultAnnotation
                      \o SubSeq(line, b + 2, Len(line))

\* resize(scale, activeLeaf), lines 328-342: the line after the call
ResizeLine(scale, line) ==
    LET m == RegexMatch(line)
    IN  IF m # 0
        THEN LET matchText == ParseInt(Captured(line, m))
                 newWidth == matchText + scale
             IN  IF newWidth < MinWidth
                 THEN line
                 ELSE SubSeq(line, 1, m - 1)
                      \o <<"|">> \o NumberToString(newWidth) \o <<"]">>
                      \o SubSeq(line, m + DigitRun(line, m + 1) + 2, Len(line))
        ELSE LET b == IndexOf(line, <<"]">>)
             IN  IF b < 0 THEN line
                 ELSE SubSeq(line, 1, b) \o DefaultAnnotation
                      \o SubSeq(line, b + 2, Len(line))

\* key.toLocaleLowerCase()
ToLowerCase(key) ==
    CASE key = "K" -> "k"
      [] key = "J" -> "j"
      [] OTHER -> key

\* the keydown handler, lines 347-358: the scale it calls resize with,
\* 0 when it does not call it
ShortcutScale(evt) ==
    IF evt.ctrlKey /\ evt.shiftKey /\ ToLowerCase(evt.key) = "k" THEN 100
    ELSE IF evt.ctrlKey /\ evt.shiftKey /\ ToLowerCase(evt.key) = "j" THEN -100
    ELSE 0

\* the panes: 0 is no active leaf, 1 a pane that is no MarkdownView
NoLeaf == 0
OtherViewLeaf == 1
MarkdownLeaves == {2, 3}
KeyLeaves == {NoLeaf, OtherViewLeaf} \cup MarkdownLeaves

KeyEvents == [ctrlKey : BOOLEAN, shiftKey : BOOLEAN, key : {"K", "k", "J", "x"}]

GrowEvent == [ctrlKey |-> TRUE, shiftKey |-> TRUE, key |-> "K"]
ShrinkEvent == [ctrlKey |-> TRUE, shiftKey |-> TRUE, key |-> "J"]

PicLine == <<"!", "[", "[", "p", "i", "c", ".", "p", "n", "g", "]", "]">>
Pic100Line == <<"!", "[", "[", "p", "i", "c", ".", "p", "n", "g", "|", "1", "0", "0", "]", "]">>
Pic200Line == <<"!", "[", "[", "p", "i", "c", ".", "p", "n", "g", "|", "2", "0", "0", "]", "]">>
Pic50Line == <<"!", "[", "[", "p", "i", "c", ".", "p", "n", "g", "|", "5", "0", "]", "]">>
SecondLine == <<"!", "[", "[", "p", "|", "1", "5", "0", "]", "]">>

\* the lines the first line of the document starts as
StartLines ==
    { PicLine,
      <<"!", "[", "a", "|", "3", "0", "]", "(", "u", ")">>,
      <<"t", "e", "x", "t">>,
      <<"!", "[", "[", "p", "|", "1", "4", "9", "]", "]">>,
      <<"!", "[", "[", "p", "|", "1", "5", "0", "]", "]">>,
      <<"!", "[", "[", "p", "|", "0", "0", "7", "]", "]">>,
      <<"[", "x", "]", " ", "!", "[", "[", "p", "]", "]">>,
      <<"a", "|", "1", "2", " ", "b", "]">> }

\* the width the line is annotated with, NoSize when it has no annotation
WidthOf(line) ==
    IF RegexMatch(line) = 0 THEN NoSize
    ELSE ParseInt(Captured(line, RegexMatch(line)))

KeyStart(first, leaf) ==
    /\ lines = [l \in MarkdownLeaves |->
                  IF l = 2 THEN <<first, SecondLine>> ELSE <<PicLine>>]
    /\ cursor = [l \in MarkdownLeaves |-> 1]
    /\ activeLeaf = leaf
    /\ presses = <<>>

NoZoomInput == [imageUri |-> <<>>, classValue |-> <<>>, filesource |-> <<>>]
NoZoomOutput == [syntax |-> "none", ref |-> <<>>]

ResolverIdle ==
    /\ zoomInput = NoZoomInput
    /\ zoomOutput = NoZoomOutput

\* ResizeEffect writing the resized line over every line of the editor
ResizeEffectAllLines(evt) ==
    LET scale == ShortcutScale(evt)
    IN  IF scale # 0 /\ activeLeaf \in MarkdownLeaves
        THEN lines' = [lines EXCEPT ![activeLeaf] =
                          [ln \in 1..Len(@) |-> ResizeLine(scale, @[ln])]]
        ELSE UNCHANGED lines

\* the effect of the keydown handler on the editor of the active leaf
ResizeEffect(evt) ==
    LET scale == ShortcutScale(evt)
    IN  IF scale # 0 /\ activeLeaf \in MarkdownLeaves
        THEN lines' = [lines EXCEPT ![activeLeaf][cursor[activeLeaf]] =
                          ResizeLine(scale, @)]
        ELSE UNCHANGED lines

\* the keydown handler, lines 347-358
ResizeKeyDown(evt) ==
    /\ (ShortcutScale(evt) > 0 /\ activeLeaf \in MarkdownLeaves)
          => WidthOf(lines[activeLeaf][cursor[activeLeaf]]) <= MaxWidth
    /\ ResizeEffect(evt)
    /\ UNCHANGED <<cursor, activeLeaf, presses>>
    /\ UNCHANGED <<settings, isKeyHeldDown, scrollDisabled, files, ops, ticks,
                   zoomInput, zoomOutput>>

\* the editor: the cursor of a pane moves to another line
MoveCursor(leaf, ln) ==
    /\ ln \in 1..Len(lines[leaf])
    /\ cursor' = [cursor EXCEPT ![leaf] = ln]
    /\ UNCHANGED <<lines, activeLeaf, presses>>
    /\ UNCHANGED <<settings, isKeyHeldDown, scrollDisabled, files, ops, ticks,
                   zoomInput, zoomOutput>>

\* the workspace: another pane, or none, becomes the active leaf
SetActiveLeaf(leaf) ==
    /\ activeLeaf' = leaf
    /\ UNCHANGED <<lines, cursor, presses>>
    /\ UNCHANGED <<settings, isKeyHeldDown, scrollDisabled, files, ops, ticks,
                   zoomInput, zoomOutput>>

\* a shortcut press of the scenario: the handler runs, the press is recorded
ScenarioPress(evt) ==
    /\ Len(presses) < MaxPresses
    /\ ResizeEffect(evt)
    /\ presses' = Append(presses, evt.key)
    /\ UNCHANGED <<cursor, activeLeaf>>
    /\ UNCHANGED <<settings, isKeyHeldDown, scrollDisabled, files, ops, ticks,
                   zoomInput, zoomOutput>>

(***************************************************************************)
(* getZoomParams applied to arguments drawn from a set of identifiers,     *)
(* class lists and filesource attributes.                                  *)
(***************************************************************************)
BothUri == <<"h", "t", "t", "p", ":", "/", "/", "x", "/", "a", "p", "p", ":", "/", "/", "y">>

ZoomInputs ==
    [imageUri : {RemoteUri, LocalUri, MixedUri, BothUri, BlobUri, DataUri},
     classValue : {<<>>, EXCALIDRAW, <<"a", " ", "e", "x", "c", "a", "l", "i", "d", "r", "a", "w", "-", "s", "v", "g", "-", "b">>},
     filesource : {DrawSource, <<"a", ".", "m", "d">>, <<"f", "/", "g", "/", "h", ".", "x", ".", "m", "d">>}]

ResolveZoomParams ==
    /\ zoomOutput = NoZoomOutput
    /\ zoomOutput' = GetZoomParams(zoomInput.imageUri, zoomInput.classValue,
                                   zoomInput.filesource)
    /\ UNCHANGED <<settings, isKeyHeldDown, scrollDisabled, files, ops, ticks,
                   lines, cursor, activeLeaf, presses, zoomInput>>

(***************************************************************************)
(* Specifications.                                                         *)
(***************************************************************************)
\* the wheel plugin
Init ==
    /\ WheelInit
    /\ KeyStart(PicLine, NoLeaf)
    /\ ResolverIdle

Next ==
    \/ \E code \in KeyCodes : KeyDown(code)
    \/ \E code \in KeyCodes : KeyUp(code)
    \/ \E evt \in WheelEvents : Wheel(evt)
    \/ \E i \in Slots : Rewrite(i)
    \/ \E i \in Slots : Modify(i)
    \/ \E i \in Slots : ReportRejection(i)
    \/ \E value \in ModifierKeys : ChangeModifierKey(value)
    \/ \E value \in StepSizes : ChangeStepSize(value)
    \/ \E value \in InitialSizes : ChangeInitialSize(value)

Spec == Init /\ [][Next]_vars

\* the keyboard plugin
KeyInit ==
    /\ WheelStart(100)
    /\ \E first \in StartLines : KeyStart(first, NoLeaf)
    /\ ResolverIdle

KeyNext ==
    \/ \E evt \in KeyEvents : ResizeKeyDown(evt)
    \/ \E leaf \in MarkdownLeaves, ln \in 1..2 : MoveCursor(leaf, ln)
    \/ \E leaf \in KeyLeaves : SetActiveLeaf(leaf)

KeySpec == KeyInit /\ [][KeyNext]_vars

\* the keyboard plugin, shortcut presses only, on the first line of a pane
ScenarioInit ==
    /\ WheelStart(100)
    /\ \E first \in StartLines, leaf \in MarkdownLeaves : KeyStart(first, leaf)
    /\ ResolverIdle

ScenarioNext == \E evt \in {GrowEvent, ShrinkEvent} : ScenarioPress(evt)

ScenarioSpec == ScenarioInit /\ [][ScenarioNext]_vars

\* getZoomParams on its own
ResolverInit ==
    /\ WheelStart(100)
    /\ KeyStart(PicLine, NoLeaf)
    /\ zoomInput \in ZoomInputs
    /\ zoomOutput = NoZoomOutput

ResolverNext == ResolveZoomParams

ResolverSpec == ResolverInit /\ [][ResolverNext]_vars

\* a zoom-in wheel event on the remote image with Alt pressed
ZoomInTick ==
    [target |-> "eRemote", deltaY |-> -1,
     altKey |-> TRUE, ctrlKey |-> FALSE, shiftKey |-> FALSE]

\* the wheel plugin with nothing but Alt going down and up and zoom-in ticks
\* on the remote image of note.md: the host dispatches the wheel events one
\* after another, and the handler returns without awaiting handleZoom
TickInit == Init

TickNext ==
    \/ KeyDown("AltLeft")
    \/ KeyUp("AltLeft")
    \/ Wheel(ZoomInTick)
    \/ \E i \in Slots : Rewrite(i)
    \/ \E i \in Slots : Modify(i)

TickSpec == TickInit /\ [][TickNext]_vars

(***************************************************************************)
(* Properties of the wheel plugin.                                         *)
(***************************************************************************)
\* the reference of the image an element shows, as the document names it
RefOf(target) ==
    CASE target = "eRemote" -> [kind |-> "link", ref |-> RemoteUri]
      [] target \in {"eLocal", "eWide"} -> [kind |-> "embed", ref |-> PicName]
      [] OTHER -> [kind |-> "none", ref |-> <<>>]

\* the references of the image of target in text
RefsIn(text, target) ==
    {k \in 1..Len(text) :
        text[k].kind = RefOf(target).kind /\ text[k].ref = RefOf(target).ref}

\* the size annotation of the image of target in text, NoSize when the image
\* is referenced without one; the documents reference an image once
AnnotationOf(text, target) == text[CHOOSE k \in RefsIn(text, target) : TRUE].size

\* the text a zoom leaves in its file once it is through: the text it hands
\* to vault.modify, or the text as it was when it makes no call
TextAfter(i) ==
    IF ops'[i].pc = "modify" THEN ops'[i].newText ELSE files[ops[i].file]

\* a step in which zoom i reads its file and computes the new text
Rewrites(i) ==
    /\ ops[i].pc = "resolved"
    /\ ops'[i].pc # "resolved"
    /\ Rewrite(i)

\* a zoom on an image the document references with a size annotation
ZoomOnAnnotated(i) ==
    /\ ops[i].pc = "resolved"
    /\ RefsIn(files[ops[i].file], ops[i].target) # {}
    /\ AnnotationOf(files[ops[i].file], ops[i].target) # NoSize

\* a zoom on an image the document references without a size annotation
ZoomOnPlain(i) ==
    /\ ops[i].pc = "resolved"
    /\ RefsIn(files[ops[i].file], ops[i].target) # {}
    /\ AnnotationOf(files[ops[i].file], ops[i].target) = NoSize

\* vault.modify stores exactly the text the zoom computed
ModifyStoresNewText ==
    \A i \in Slots :
        (ops[i].pc = "modify" /\ ops'[i].pc # "modify" /\ Modify(i)) => files' = [files EXCEPT ![ops[i].file] = ops[i].newText]

\* C1: a wheel tick with deltaY < 0 on an image annotated with size V
\* rewrites the annotation to V + stepSize, and that text is what is stored.
C1_ZoomInAddsStep ==
    [][/\ \A i \in Slots :
            (Rewrites(i) /\ ZoomOnAnnotated(i) /\ ops[i].deltaY < 0) =>
                AnnotationOf(TextAfter(i), ops[i].target)
                    = AnnotationOf(files[ops[i].file], ops[i].target)
                      + settings.stepSize
       /\ ModifyStoresNewText]_vars

\* a zoom-in from 100 by 25 has been stored
C1_Witness == AnnotationOf(files[NoteFile], "eRemote") = 125

\* C2: a wheel tick with deltaY > 0 on an image annotated with size V yields
\* V - stepSize exactly when V > stepSize, and leaves V when V <= stepSize.
C2_ZoomOutGuard ==
    [][\A i \in Slots :
          (Rewrites(i) /\ ZoomOnAnnotated(i) /\ ops[i].deltaY > 0) =>
              LET V == AnnotationOf(files[ops[i].file], ops[i].target)
                  S == settings.stepSize
              IN  /\ AnnotationOf(TextAfter(i), ops[i].target)
                        = IF V > S THEN V - S ELSE V
                  /\ V <= S => ops'[i].pc = "idle"]_vars

\* a zoom-out from 30 by 25 has been stored
C2_Witness == AnnotationOf(files[NoteFile], "eRemote") = 5

\* C3: a wheel tick on an image without size annotation writes
\* min(natural width of the image, initialSize).
C3_InitialIsMinOfNaturalWidth ==
    [][\A i \in Slots :
          (Rewrites(i) /\ ZoomOnPlain(i)) =>
              AnnotationOf(TextAfter(i), ops[i].target)
                  = Min(ElementInfo[ops[i].target].naturalWidth,
                        settings.initialSize)]_vars

\* the elements whose reference matches none of the three syntaxes
UnmatchedElements == {"eData"}

\* C10: a zoom on an image whose reference matches none of the three
\* syntaxes ends in the error "Image is not zoomable"; no text is modified,
\* and the key-held flag and the settings stay as they are.
C10_UnresolvableAborts ==
    [][\A i \in Slots :
          /\ (Rewrites(i) /\ ops[i].target \in UnmatchedElements) =>
                /\ ops'[i].pc = "rejected"
                /\ ops'[i].error = NotZoomable
                /\ UNCHANGED <<files, isKeyHeldDown, settings>>
          /\ (ops[i].pc = "rejected" /\ ops'[i].pc # "rejected") =>
                /\ ops'[i].pc = "idle"
                /\ UNCHANGED <<files, isKeyHeldDown, settings>>]_vars

\* a zoom has ended with the error
C10_Witness ==
    \E i \in Slots : ops[i].pc = "rejected" /\ ops[i].error = NotZoomable

\* the payload of a wheel event reports the modifier key as pressed
PayloadReports(modifierKey, evt) ==
    \/ modifierKey = "AltLeft" /\ evt.altKey
    \/ modifierKey = "ControlLeft" /\ evt.ctrlKey
    \/ modifierKey = "ShiftLeft" /\ evt.shiftKey

\* C7: with the key-held flag set, a wheel event whose payload reports the
\* configured modifier as not pressed clears the flag, re-enables scrolling
\* and starts no zoom, whatever its target.
C7_StuckModifierCleared ==
    [][\/ ~isKeyHeldDown
       \/ /\ ~isKeyHeldDown'
          /\ ~scrollDisabled'
          /\ UNCHANGED <<files, ops, ticks>>
       \/ \A evt \in WheelEvents :
             PayloadReports(settings.modifierKey, evt) \/ ~Wheel(evt)]_vars

\* the flag is set, scrolling is blocked, and Alt is the configured key
C7_Witness ==
    /\ isKeyHeldDown
    /\ scrollDisabled
    /\ settings.modifierKey = "AltLeft"
    /\ \E i \in Slots : ops[i].pc = "resolved"

\* the three conditions under which a wheel event zooms
Gate(evt) ==
    /\ isKeyHeldDown
    /\ PayloadReports(settings.modifierKey, evt)
    /\ ElementInfo[evt.target].nodeName = "IMG"

\* C8: a wheel event starts a zoom, and so changes a document, only if the
\* key-held flag is set, its payload reports the configured modifier, and its
\* target is an image; documents change only through a zoom that was started.
C8_WheelGating ==
    [][/\ \/ UNCHANGED <<files, ops, ticks>>
          \/ \A evt \in WheelEvents : Gate(evt) \/ ~Wheel(evt)
       /\ ticks' # ticks =>
             /\ isKeyHeldDown
             /\ \E evt \in WheelEvents : Gate(evt) /\ Wheel(evt)
       /\ files' # files =>
             \E i \in Slots : ops[i].pc = "modify" /\ Modify(i)]_vars

\* a zoom has changed a document
C8_Witness == files[OtherFile] # OtherText

(***************************************************************************)
(* Properties of getZoomParams.                                            *)
(***************************************************************************)
HttpUris == {RemoteUri, MixedUri, BothUri}
AppUris == {LocalUri, MixedUri, BothUri}
MarkerClasses == {EXCALIDRAW, <<"a", " ", "e", "x", "c", "a", "l", "i", "d", "r", "a", "w", "-", "s", "v", "g", "-", "b">>}

\* the file name in an internal link
NameInUri(imageUri) ==
    CASE imageUri = LocalUri -> PicName
      [] imageUri = MixedUri -> MixedName
      [] OTHER -> <<>>

\* the drawing a filesource attribute names
NameInSource(filesource) ==
    CASE filesource = DrawSource -> DrawName
      [] filesource = <<"a", ".", "m", "d">> -> <<"a">>
      [] filesource = <<"f", "/", "g", "/", "h", ".", "x", ".", "m", "d">> -> <<"h", ".", "x">>

\* C9: "http" in the identifier selects the remote syntax whatever else
\* holds; otherwise "app://" selects the local syntax; otherwise the drawing
\* marker selects the local syntax with the name taken from the filesource
\* attribute; otherwise the resolver fails.
C9_ResolverPrecedence ==
    zoomOutput # NoZoomOutput =>
        IF zoomInput.imageUri \in HttpUris
        THEN zoomOutput = [syntax |-> "remote", ref |-> zoomInput.imageUri]
        ELSE IF zoomInput.imageUri \in AppUris
        THEN zoomOutput = [syntax |-> "local", ref |-> NameInUri(zoomInput.imageUri)]
        ELSE IF zoomInput.classValue \in MarkerClasses
        THEN zoomOutput = [syntax |-> "local",
                           ref |-> NameInSource(zoomInput.filesource)]
        ELSE zoomOutput = Unresolvable

\* the resolver has run on an identifier with "http" and "app://" on an
\* element that carries the drawing marker
C9_Witness ==
    /\ zoomOutput # NoZoomOutput
    /\ zoomInput.imageUri = MixedUri
    /\ zoomInput.classValue = EXCALIDRAW

(***************************************************************************)
(* Properties of the keyboard plugin.                                      *)
(***************************************************************************)
IsGrowShortcut(evt) == evt.ctrlKey /\ evt.shiftKey /\ evt.key \in {"k", "K"}
IsShrinkShortcut(evt) == evt.ctrlKey /\ evt.shiftKey /\ evt.key \in {"j", "J"}

\* the line under the cursor of the active pane, before and after a step
CursorLine == lines[activeLeaf][cursor[activeLeaf]]
CursorLineAfter == lines'[activeLeaf][cursor[activeLeaf]]

\* the annotated line with its number replaced by n
WithWidth(line, n) ==
    LET m == CHOOSE i \in 1..Len(line) :
                 /\ line[i] = "|"
                 /\ \A j \in 1..(i - 1) : ~MatchesAt(line, j)
                 /\ MatchesAt(line, i)
        close == CHOOSE j \in (m + 1)..Len(line) :
                     line[j] = "]" /\ \A k \in (m + 1)..(j - 1) : line[k] # "]"
    IN  SubSeq(line, 1, m) \o NumberToString(n) \o SubSeq(line, close, Len(line))

\* what the shortcuts make of particular lines
ResizeExamples(old, delta, new) ==
    /\ (old = <<"!", "[", "[", "p", "|", "1", "5", "0", "]", "]">> /\ delta = -100) => new = <<"!", "[", "[", "p", "|", "5", "0", "]", "]">>
    /\ (old = <<"!", "[", "[", "p", "|", "1", "4", "9", "]", "]">> /\ delta = -100) => new = old
    /\ (old = <<"!", "[", "[", "p", "|", "1", "5", "0", "]", "]">> /\ delta = 100) => new = <<"!", "[", "[", "p", "|", "2", "5", "0", "]", "]">>
    /\ (old = <<"!", "[", "a", "|", "3", "0", "]", "(", "u", ")">> /\ delta = 100) => new = <<"!", "[", "a", "|", "1", "3", "0", "]", "(", "u", ")">>
    /\ (old = <<"!", "[", "a", "|", "3", "0", "]", "(", "u", ")">> /\ delta = -100) => new = old
    /\ (old = <<"!", "[", "[", "p", "|", "0", "0", "7", "]", "]">> /\ delta = 100) => new = <<"!", "[", "[", "p", "|", "1", "0", "7", "]", "]">>

\* C4: on a line that contains |N] the grow shortcut writes N + 100 and the
\* shrink shortcut N - 100, unless that is below 50: then the line is left
\* as it is.
C4_AnnotatedLineStep ==
    [][\A evt \in KeyEvents :
          (/\ activeLeaf \in MarkdownLeaves
           /\ IsGrowShortcut(evt) \/ IsShrinkShortcut(evt)
           /\ WidthOf(CursorLine) # NoSize
           /\ ResizeKeyDown(evt)) =>
              LET delta == IF IsGrowShortcut(evt) THEN 100 ELSE -100
                  N == WidthOf(CursorLine)
              IN  /\ IF N + delta < 50
                     THEN CursorLineAfter = CursorLine
                     ELSE CursorLineAfter = WithWidth(CursorLine, N + delta)
                  /\ ResizeExamples(CursorLine, delta, CursorLineAfter)]_vars

\* a line annotated with 150 has been shrunk to the floor
C4_Witness == lines[2][1] = <<"!", "[", "[", "p", "|", "5", "0", "]", "]">>

\* the line with its first closing bracket replaced by |100]
WithDefault(line) ==
    IF \A k \in 1..Len(line) : line[k] # "]" THEN line
    ELSE LET b == CHOOSE k \in 1..Len(line) :
                      line[k] = "]" /\ \A j \in 1..(k - 1) : line[j] # "]"
         IN  SubSeq(line, 1, b - 1) \o <<"|", "1", "0", "0", "]">>
             \o SubSeq(line, b + 1, Len(line))

\* C5: on a line without |N] both shortcuts put |100] in the place of the
\* first closing bracket of the line; ![[pic.png]] becomes ![[pic.png|100]].
C5_PlainLineGetsDefault ==
    [][\A evt \in {GrowEvent, ShrinkEvent} :
          (WidthOf(CursorLine) = NoSize /\ ScenarioPress(evt)) =>
              /\ CursorLineAfter = WithDefault(CursorLine)
              /\ CursorLine = PicLine => CursorLineAfter = Pic100Line]_vars

\* the shrink shortcut alone has annotated ![[pic.png]]
C5_Witness == presses = <<"J">> /\ CursorLine = Pic100Line

\* two grow presses, then six shrink presses
ScenarioPresses == <<"K", "K", "J", "J", "J", "J", "J", "J">>

\* the scenario runs on the line ![[pic.png]] of pane 3
InScenario(n) == activeLeaf = 3 /\ presses = SubSeq(ScenarioPresses, 1, n)

\* C6 as stated: from ![[pic.png]] one grow press gives |100], a second
\* |200], and after six shrink presses the line is at |50].
C6_ScenarioEndsAt50 ==
    /\ InScenario(1) => CursorLine = Pic100Line
    /\ InScenario(2) => CursorLine = Pic200Line
    /\ InScenario(8) => CursorLine = Pic50Line

\* C6 as amended: from ![[pic.png]] one grow press gives |100], a second
\* |200], the first shrink press |100], and the five shrink presses after it
\* change nothing: the line stays at |100].
C6_ScenarioEndsAt100 ==
    /\ InScenario(1) => CursorLine = Pic100Line
    /\ InScenario(2) => CursorLine = Pic200Line
    /\ \A n \in 3..8 : InScenario(n) => CursorLine = Pic100Line

\* the eight presses of the scenario have been handled
C6_Witness == InScenario(8)

(***************************************************************************)
(* Properties of handleZoom as a whole.                                    *)
(***************************************************************************)
\* the file of the first Markdown pane that shows the element, NoFile when
\* no Markdown pane shows it
OwnerOf(target) ==
    CASE target \in {"eRemote", "eLocal", "eData"} -> NoteFile
      [] target = "eWide" -> OtherFile
      [] OTHER -> NoFile

\* the slot a zoom started in this step takes
StartedSlot ==
    CHOOSE i \in Slots :
        ops[i].pc = "idle" /\ \A j \in Slots : ops[j].pc = "idle" => i <= j

\* C11: a zoom on an image that no Markdown pane shows fails with "No file
\* belonging to the image found" and neither reads nor modifies a document;
\* a zoom on an image that Markdown panes show goes on with the file of the
\* first of them.
C11_OwningDocument ==
    [][/\ \/ ticks' = ticks
          \/ \A evt \in WheelEvents :
                Wheel(evt) =>
                    IF OwnerOf(evt.target) = NoFile
                    THEN /\ ops'[StartedSlot] = RejectedOp(NoFileFound)
                         /\ files' = files
                    ELSE /\ ops'[StartedSlot].pc = "resolved"
                         /\ ops'[StartedSlot].target = evt.target
                         /\ ops'[StartedSlot].file = OwnerOf(evt.target)
       /\ \A i \in Slots :
             (/\ ops[i].pc = "rejected"
              /\ ops[i].error = NoFileFound
              /\ ops'[i] # ops[i]) => (ops'[i] = IdleOp /\ files' = files)]_vars

\* one zoom has failed for want of a pane, another has found the first of
\* the two panes that show its image
C11_Witness ==
    /\ \E i \in Slots : ops[i].pc = "rejected" /\ ops[i].error = NoFileFound
    /\ \E i \in Slots :
          /\ ops[i].pc = "resolved"
          /\ ops[i].target = "eWide"
          /\ ops[i].file = OtherFile

\* every zoom reads once and writes at most once: a call of vault.modify
\* comes from a zoom that has read its file, a zoom reads only when a wheel
\* event started it, and a document changes only by the one call of one zoom
ReadOnceWriteOnce ==
    /\ \A i \in Slots :
          /\ (ops'[i].pc = "modify" /\ ops[i].pc # "modify") => Rewrites(i)
          /\ (ops'[i].pc = "resolved" /\ ops[i].pc # "resolved") =>
                (ops[i].pc = "idle" /\ ticks' = ticks + 1)
    /\ files' # files =>
          \E i \in Slots :
              /\ ops[i].pc = "modify"
              /\ ops' = [ops EXCEPT ![i] = IdleOp]
              /\ files' = [files EXCEPT ![ops[i].file] = ops[i].newText]

\* a zoom calls vault.modify only with a text that differs from the one read
WritesOnlyChangedText ==
    \A i \in Slots :
        (Rewrites(i) /\ ops'[i].pc = "modify") =>
            ops'[i].newText # files[ops[i].file]

\* a zoom-out on an annotated image whose size is at most one step
BlockedZoomOut(i) ==
    /\ ZoomOnAnnotated(i)
    /\ ops[i].deltaY > 0
    /\ AnnotationOf(files[ops[i].file], ops[i].target) <= settings.stepSize

\* C12 as stated: a zoom reads once, writes at most once and only a changed
\* text; a blocked zoom-out, a tick with deltaY = 0 and a tick with step 0
\* perform no write.
C12_NoWriteWithoutDelta ==
    [][/\ ReadOnceWriteOnce
       /\ WritesOnlyChangedText
       /\ \A i \in Slots :
             (/\ Rewrites(i)
              /\ \/ BlockedZoomOut(i)
                 \/ ops[i].deltaY = 0
                 \/ settings.stepSize = 0) => ops'[i].pc # "modify"]_vars

\* C12 as amended: a zoom reads once, writes at most once and only a changed
\* text; on an image that has a size annotation, a blocked zoom-out, a tick
\* with deltaY = 0 and a tick with step 0 perform no write.
C12_NoWriteOnAnnotated ==
    [][/\ ReadOnceWriteOnce
       /\ WritesOnlyChangedText
       /\ \A i \in Slots :
             (/\ Rewrites(i)
              /\ ZoomOnAnnotated(i)
              /\ \/ BlockedZoomOut(i)
                 \/ ops[i].deltaY = 0
                 \/ settings.stepSize = 0) => ops'[i] = IdleOp]_vars

\* a zoom-out on an image annotated with less than one step has been started
\* while a tick with deltaY = 0 on the same image is under way
C12_Witness ==
    /\ \E i \in Slots : ops[i].pc = "resolved" /\ BlockedZoomOut(i)
    /\ \E i \in Slots :
          ops[i].pc = "resolved" /\ ZoomOnAnnotated(i) /\ ops[i].deltaY = 0

\* every zoom that was started is through
AllZoomsDone == \A i \in Slots : ops[i].pc = "idle"

\* zoom i reads its file while another zoom has read it and not yet written
ReadsDuringZoom(i) ==
    /\ Rewrites(i)
    /\ \E j \in Slots \ {i} : ops[j].pc = "modify" /\ ops[j].file = ops[i].file

\* C13: with nothing but zoom-in ticks on one image annotated with V, no
\* zoom reads the document between the read and the write of another, and
\* once the n ticks dispatched so far are through the document holds
\* V + n * stepSize.
C13_NoLostUpdate ==
    /\ [](AllZoomsDone =>
            \E v \in StartSizes :
                files[NoteFile] = NoteText(v + ticks * settings.stepSize))
    /\ [][\A i \in Slots : ~ReadsDuringZoom(i)]_vars

\* what the existing-size branch makes of size V
ExistingBranchSize(V, deltaY, S) ==
    CASE deltaY < 0 -> V + S
      [] deltaY > 0 /\ V > S -> V - S
      [] OTHER -> V

NotAnInputEvent ==
    \/ vars' = vars
    \/ settings' # settings
    \/ files' # files
    \/ ops' # ops /\ ticks' = ticks

\* C15: the key-held flag starts false; keydown of the configured modifier
\* sets it, keyup of the configured modifier and a wheel event whose payload
\* lacks the modifier clear it; keydown and keyup of other keys and wheel
\* events that carry the modifier leave it as it is, and nothing else
\* changes it.
C15_FlagStateMachine ==
    /\ ~isKeyHeldDown
    /\ [][/\ \/ NotAnInputEvent
             \/ /\ \A code \in KeyCodes :
                      /\ KeyDown(code) =>
                            isKeyHeldDown' = IF code = settings.modifierKey
                                             THEN TRUE ELSE isKeyHeldDown
                      /\ KeyUp(code) =>
                            isKeyHeldDown' = IF code = settings.modifierKey
                                             THEN FALSE ELSE isKeyHeldDown
                /\ isKeyHeldDown' # isKeyHeldDown =>
                      \A evt \in WheelEvents :
                          PayloadReports(settings.modifierKey, evt) => ~Wheel(evt)
                /\ isKeyHeldDown' =>
                      \A evt \in WheelEvents :
                          ~PayloadReports(settings.modifierKey, evt) => ~Wheel(evt)
          /\ isKeyHeldDown' # isKeyHeldDown =>
                \/ \E code \in KeyCodes : KeyDown(code) \/ KeyUp(code)
                \/ \E evt \in WheelEvents : Wheel(evt)]_vars

\* the flag is set under a modifier other than the default one while a zoom
\* that a wheel event with that modifier started is under way
C15_Witness ==
    /\ isKeyHeldDown
    /\ settings.modifierKey = "ShiftLeft"
    /\ ticks = 1
    /\ \E i \in Slots : ops[i].pc = "resolved"

(***************************************************************************)
(* Frame of the keyboard plugin.                                           *)
(***************************************************************************)
\* C16: a keydown changes at most the line under the cursor of the active
\* Markdown pane: the other lines of that document and the other documents
\* stay as they are, and with no active pane, or one that is no Markdown
\* view, nothing changes.
C16_KeyboardFrame ==
    [][\A evt \in KeyEvents :
          ResizeKeyDown(evt) =>
              /\ activeLeaf \notin MarkdownLeaves => lines' = lines
              /\ \A leaf \in MarkdownLeaves :
                    /\ Len(lines'[leaf]) = Len(lines[leaf])
                    /\ \A ln \in 1..Len(lines[leaf]) :
                          (leaf # activeLeaf \/ ln # cursor[leaf]) =>
                              lines'[leaf][ln] = lines[leaf][ln]
              /\ UNCHANGED <<cursor, activeLeaf, files>>]_vars

\* the second line of the first document has been resized, and the line above
\* it and the other document are as they were at the start
C16_Witness ==
    /\ lines[2][2] = <<"!", "[", "[", "p", "|", "2", "5", "0", "]", "]">>
    /\ lines[2][1] = PicLine
    /\ lines[3] = <<PicLine>>

(***************************************************************************)
(* Invariants of the wheel plugin.                                         *)
(***************************************************************************)
\* C17: whatever keydown, keyup and wheel events have been handled, the
\* listener that blocks scrolling is installed exactly when the key-held
\* flag is set.
C17_ScrollBlockedIffHeld == scrollDisabled <=> isKeyHeldDown

\* the flag was set, wheel events were handled, and the flag has been
\* cleared again: no listener is left
C17_Witness == ~isKeyHeldDown /\ ~scrollDisabled /\ ticks = MaxTicks

\* the size annotations a text carries
SizesIn(text) == {text[k].size : k \in 1..Len(text)} \ {NoSize}

\* C18: no document ever carries a negative size; the annotation of the
\* remote image, at least 1 at the start, never reaches 0; a tick on an
\* image annotated with V >= 0 yields a size >= 0, from V >= 1 a size >= 1,
\* and a zoom-out never writes a size <= 0.
C18_SizeNeverNegative ==
    /\ [](/\ \A f \in Files : \A n \in SizesIn(files[f]) : n >= 0
          /\ AnnotationOf(files[NoteFile], "eRemote") >= 1)
    /\ [][\A i \in Slots :
             (Rewrites(i) /\ ZoomOnAnnotated(i)) =>
                 LET V == AnnotationOf(files[ops[i].file], ops[i].target)
                     N == AnnotationOf(TextAfter(i), ops[i].target)
                 IN  /\ V >= 0 => N >= 0
                     /\ V >= 1 => N >= 1
                     /\ (ops[i].deltaY > 0 /\ ops'[i].pc = "modify") => N > 0]_vars

\* two ticks have been handled and the remote image is annotated with 5,
\* which no zoom-out takes further down
C18_Witness ==
    /\ AnnotationOf(files[NoteFile], "eRemote") = 5
    /\ ticks = MaxTicks
    /\ AllZoomsDone

====
